---- MODULE Spec2Model ----
(***************************************************************************)
(* Spoiler Blocker content script (contentScript.js): settings snapshot,   *)
(* debounced scan scheduler, site gate, keyword matcher, text-node walker  *)
(* and masking engine, as a state machine.                                 *)
(*                                                                         *)
(* Strings are tuples of one-character strings, so that trimming,          *)
(* escaping and matching are computed character by character.              *)
(***************************************************************************)
EXTENDS Integers, Sequences, FiniteSets, TLC

VARIABLES
  state,      \* let state: the live settings snapshot
  store,      \* what chrome.storage.sync.get(DEFAULTS) will hand to the load
  host,       \* location.hostname, a tuple of labels
  now,        \* Date.now(), in ms
  timers,     \* pending setTimeout timers: handle -> due time
  t,          \* debounce's closure variable t (0 = undefined)
  pc,         \* "idle", or "scanning" while scan()'s loop is running
  loaded,     \* the storage get callback of loadSettings has run
  observing,  \* observer.observe(...) has been called
  pushes,     \* number of SB_SETTINGS_UPDATED messages delivered so far
  dom,        \* the page: node id -> node
  cur,        \* TreeWalker.currentNode of the running scan
  regex,      \* the matcher of the running / latest scan
  mutated,    \* child-list records queued for the MutationObserver
  hist,       \* history of the scheduler and of the latest scan
  mIn,        \* matcher harness: keywords, partial flag and text under test
  mOut,       \* matcher harness: compiled matcher and test result
  call,       \* masking harness: the latest maskElement / unmaskElement call
  surf        \* the control surfaces: sync storage, popup, background, messages

vars == <<state, store, host, now, timers, t, pc, loaded, observing, pushes,
          dom, cur, regex, mutated, hist, mIn, mOut, call, surf>>

Min(a, b) == IF a < b THEN a ELSE b
Max(a, b) == IF a > b THEN a ELSE b

(***************************************************************************)
(* Characters and strings                                                  *)
(***************************************************************************)
LowerSeq == <<"a","b","c","d","e","f","g","h","i","j","k","l","m",
              "n","o","p","q","r","s","t","u","v","w","x","y","z">>
UpperSeq == <<"A","B","C","D","E","F","G","H","I","J","K","L","M",
              "N","O","P","Q","R","S","T","U","V","W","X","Y","Z">>
Digits == {"0","1","2","3","4","5","6","7","8","9"}

\* the RegExp 'i' flag: letters compare by their case-folded form
Fold(c) ==
  IF \E i \in 1..26 : UpperSeq[i] = c
    THEN LowerSeq[CHOOSE i \in 1..26 : UpperSeq[i] = c]
    ELSE c

\* \w of a RegExp without the u flag: [A-Za-z0-9_]
IsWordChar(c) ==
  \/ \E i \in 1..26 : LowerSeq[i] = c \/ UpperSeq[i] = c
  \/ c \in Digits
  \/ c = "_"

IsSpace(c) == c = " "

RECURSIVE TrimStart(_)
TrimStart(s) ==
  IF s = <<>> THEN <<>>
  ELSE IF IsSpace(Head(s)) THEN TrimStart(Tail(s)) ELSE s

RECURSIVE TrimEnd(_)
TrimEnd(s) ==
  IF s = <<>> THEN <<>>
  ELSE IF IsSpace(s[Len(s)]) THEN TrimEnd(SubSeq(s, 1, Len(s) - 1)) ELSE s

\* String.prototype.trim
Trim(s) == TrimEnd(TrimStart(s))

RECURSIVE Join(_, _)
Join(parts, sep) ==
  IF parts = <<>> THEN <<>>
  ELSE IF Len(parts) = 1 THEN parts[1]
  ELSE parts[1] \o sep \o Join(Tail(parts), sep)

(***************************************************************************)
(* buildRegex: the pattern source it assembles, and RegExp.test on it      *)
(***************************************************************************)
\* the character class of k.replace(/[.*+?^${}()|[\]\\]/g, '\\$&')
SpecialChars == {".", "*", "+", "?", "^", "$", "{", "}", "(", ")", "|", "[", "]", "\\"}

RECURSIVE Escape(_)
Escape(k) ==
  IF k = <<>> THEN <<>>
  ELSE (IF Head(k) \in SpecialChars THEN <<"\\", Head(k)>> ELSE <<Head(k)>>)
       \o Escape(Tail(k))

\* null, and a compiled RegExp (its source and flags)
NoRegex == [null |-> TRUE, source |-> <<>>, flags |-> <<>>]
RegExp(source, flags) == [null |-> FALSE, source |-> source, flags |-> flags]

MapSeq(s, Op(_)) == [i \in 1..Len(s) |-> Op(s[i])]
NonEmpty(s) == s # <<>>

buildRegex(keywords, partial) ==
  IF Len(keywords) = 0 THEN NoRegex
  ELSE LET escaped == MapSeq(SelectSeq(MapSeq(keywords, Trim), NonEmpty), Escape)
           alt == Join(escaped, <<"|">>)
       IN IF Len(escaped) = 0 THEN NoRegex
          ELSE RegExp(IF partial THEN <<"(">> \o alt \o <<")">>
                      ELSE <<"\\", "b", "(">> \o alt \o <<")", "\\", "b">>,
                      <<"i">>)

\* the tokens of a pattern source: \b, an escaped or plain literal, the
\* wildcard, and the group and alternation signs
Tok(kind, c) == [t |-> kind, c |-> c]

RECURSIVE Tokenize(_)
Tokenize(s) ==
  IF s = <<>> THEN <<>>
  ELSE IF Head(s) = "\\" /\ Len(s) >= 2
    THEN <<IF s[2] = "b" THEN Tok("wb", "") ELSE Tok("lit", s[2])>>
         \o Tokenize(SubSeq(s, 3, Len(s)))
  ELSE <<CASE Head(s) = "." -> Tok("any", "")
           [] Head(s) = "|" -> Tok("bar", "")
           [] Head(s) = "(" -> Tok("open", "")
           [] Head(s) = ")" -> Tok("close", "")
           [] OTHER -> Tok("lit", Head(s))>>
       \o Tokenize(Tail(s))

\* the alternatives of a token list, split at the alternation signs
RECURSIVE SplitAlts(_, _)
SplitAlts(toks, acc) ==
  IF toks = <<>> THEN <<acc>>
  ELSE IF Head(toks).t = "bar" THEN <<acc>> \o SplitAlts(Tail(toks), <<>>)
  ELSE SplitAlts(Tail(toks), Append(acc, Head(toks)))

CharAt(text, i) == IF i >= 1 /\ i <= Len(text) THEN text[i] ELSE ""

\* \b between text[p] and text[p+1]
WordBoundary(text, p) ==
  IsWordChar(CharAt(text, p)) # IsWordChar(CharAt(text, p + 1))

AtomMatches(tok, c, ignoreCase) ==
  \/ tok.t = "any" /\ c # "\n"
  \/ tok.t = "lit" /\ (IF ignoreCase THEN Fold(tok.c) = Fold(c) ELSE tok.c = c)

\* the alternative alt matches text at positions i .. i + Len(alt) - 1
AltMatchesAt(alt, text, i, ignoreCase) ==
  /\ i + Len(alt) - 1 <= Len(text)
  /\ \A j \in 1..Len(alt) : AtomMatches(alt[j], text[i + j - 1], ignoreCase)

\* regex.test(text) for the patterns buildRegex produces:  \b? ( a1 | ... ) \b?
RegexTest(re, text) ==
  LET toks == Tokenize(re.source)
      n == Len(toks)
      lead == n >= 1 /\ toks[1].t = "wb"
      trail == n >= 1 /\ toks[n].t = "wb"
      first == IF lead THEN 3 ELSE 2
      last == IF trail THEN n - 2 ELSE n - 1
      alts == SplitAlts(SubSeq(toks, first, last), <<>>)
      ic == \E k \in 1..Len(re.flags) : re.flags[k] = "i"
  IN \E i \in 1..(Len(text) + 1) : \E a \in 1..Len(alts) :
       /\ AltMatchesAt(alts[a], text, i, ic)
       /\ lead => WordBoundary(text, i - 1)
       /\ trail => WordBoundary(text, i + Len(alts[a]) - 1)

(***************************************************************************)
(* The page: a table of nodes, node 1 is document.body                     *)
(***************************************************************************)
MaxNodes == 18                 \* size of the node table
NodeIds == 1..MaxNodes
Body == 1

PlainProps == {"filter", "color", "background", "text-shadow", "outline",
               "max-height", "overflow", "position", "cursor"}
\* the further properties of the overlay's cssText
OverlayOnlyProps == {"inset", "display", "align-items", "justify-content", "font-weight"}
StyleProps == PlainProps \cup OverlayOnlyProps

\* an inline style value is a tuple: <<>> when the property is not set,
\* <<keyword>> or <<function, pixels>> otherwise
Unset == <<>>
NoStyle == [p \in StyleProps |-> Unset]

FreeNode == [kind |-> "free", parent |-> 0, children |-> <<>>, text |-> <<>>,
             classes |-> {}, maskMode |-> "", style |-> NoStyle,
             hidden |-> FALSE, onceClick |-> 0, owner |-> 0]

\* an element: classList, dataset.sbMaskMode, inline style, whether its
\* computed style is visibility:hidden or display:none, the number of
\* once-only click listeners maskElement registered on it, and for an overlay
\* the element its click listener reveals
Element(parent, children, hidden, style) ==
  [FreeNode EXCEPT !.kind = "el", !.parent = parent, !.children = children,
                   !.hidden = hidden, !.style = style]

TextNode(parent, text) ==
  [FreeNode EXCEPT !.kind = "text", !.parent = parent, !.text = text]

\* 'Spoiler hidden - click to reveal' (the source has an em dash where "-"
\* stands: both are non-word characters)
OverlayText ==
  <<"S","p","o","i","l","e","r"," ","h","i","d","d","e","n"," ","-"," ",
    "c","l","i","c","k"," ","t","o"," ","r","e","v","e","a","l">>

OverlayCss ==
  [NoStyle EXCEPT !["position"] = <<"absolute">>, !["inset"] = <<"0">>,
                  !["display"] = <<"flex">>, !["align-items"] = <<"center">>,
                  !["justify-content"] = <<"center">>, !["font-weight"] = <<"600">>,
                  !["background"] = <<"rgba(0,0,0,.6)">>, !["color"] = <<"#fff">>,
                  !["cursor"] = <<"pointer">>]

FreeIds(d) == {n \in NodeIds : d[n].kind = "free"}
UsedIds(d) == NodeIds \ FreeIds(d)
MinOf(S) == CHOOSE n \in S : \A m \in S : n <= m

\* document.createElement needs table slots: an overlay takes two
CanCreateOverlay(d) == Cardinality(FreeIds(d)) >= 2

SetProperty(style, prop, value) == [style EXCEPT ![prop] = value]
RemoveProperty(style, prop) == [style EXCEPT ![prop] = Unset]

\* Number(x) || dflt for the numbers the settings carry
NumberOr(x, dflt) == IF x = 0 THEN dflt ELSE x

RECURSIVE PreOrder(_, _)
RECURSIVE PreOrderAll(_, _)
\* the subtree of n in document order
PreOrder(d, n) == <<n>> \o PreOrderAll(d, d[n].children)
PreOrderAll(d, ids) ==
  IF ids = <<>> THEN <<>>
  ELSE PreOrder(d, Head(ids)) \o PreOrderAll(d, Tail(ids))

SeqToSet(s) == {s[i] : i \in 1..Len(s)}
Without(s, x) == SelectSeq(s, LAMBDA y : y # x)

\* el.querySelector('.sb-overlay'): the first descendant in document order
QueryOverlay(d, el) ==
  LET desc == Tail(PreOrder(d, el))
      hits == SelectSeq(desc, LAMBDA n : "sb-overlay" \in d[n].classes)
  IN IF hits = <<>> THEN 0 ELSE Head(hits)

\* node.remove(): the node leaves its parent; its subtree is garbage
RemoveNode(d, n) ==
  LET gone == SeqToSet(PreOrder(d, n))
      p == d[n].parent
  IN [m \in NodeIds |->
        IF m \in gone THEN FreeNode
        ELSE IF m = p THEN [d[m] EXCEPT !.children = Without(d[m].children, n)]
        ELSE d[m]]

unmaskElement(d, el) ==
  IF el = 0 THEN d
  ELSE LET s1 == RemoveProperty(d[el].style, "filter")
           s2 == RemoveProperty(s1, "color")
           s3 == RemoveProperty(s2, "background")
           s4 == RemoveProperty(s3, "text-shadow")
           s5 == RemoveProperty(s4, "outline")
           s6 == RemoveProperty(s5, "max-height")
           s7 == RemoveProperty(s6, "overflow")
           s8 == RemoveProperty(s7, "position")
           d1 == [d EXCEPT ![el].classes = @ \ {"sb-masked"}, ![el].style = s8]
           overlay == QueryOverlay(d1, el)
       IN IF overlay = 0 THEN d1 ELSE RemoveNode(d1, overlay)

\* the body of maskElement after its guard
ApplyMask(d, el, mode, intensity, debug) ==
  LET d0 == [d EXCEPT ![el].classes = @ \cup {"sb-masked"}, ![el].maskMode = mode]
      st == d0[el].style
      d1 ==
        CASE mode = "blackout" ->
               [d0 EXCEPT ![el].style =
                  SetProperty(SetProperty(SetProperty(SetProperty(st,
                    "color", <<"transparent">>),
                    "background", <<"#000">>),
                    "text-shadow", <<"none">>),
                    "filter", <<"none">>)]
          [] mode = "collapse" ->
               LET o == MinOf(FreeIds(d0))
                   ot == MinOf(FreeIds(d0) \ {o})
                   overlay == [Element(el, <<ot>>, FALSE, OverlayCss)
                                 EXCEPT !.classes = {"sb-overlay"}, !.owner = el]
               IN [d0 EXCEPT
                     ![el].style =
                        SetProperty(SetProperty(SetProperty(st,
                          "max-height", <<"px", Max(0, NumberOr(intensity, 0))>>),
                          "overflow", <<"hidden">>),
                          "position", <<"relative">>),
                     ![el].children = Append(@, o),
                     ![o] = overlay,
                     ![ot] = TextNode(o, OverlayText)]
          [] OTHER ->
               [d0 EXCEPT
                  ![el].style =
                     SetProperty(SetProperty(SetProperty(st,
                       "filter", <<"blur", Max(2, NumberOr(intensity, 8))>>),
                       "text-shadow", <<"0 0 12px rgba(0,0,0,.5)">>),
                       "cursor", <<"pointer">>),
                  ![el].onceClick = @ + 1]
  IN IF debug
       THEN [d1 EXCEPT ![el].style = SetProperty(@, "outline", <<"2px dashed #ff4d4f">>)]
       ELSE d1

MutMaskElementNoGuard(d, el, mode, intensity, debug) ==
  IF el = 0 THEN d ELSE ApplyMask(d, el, mode, intensity, debug)

maskElement(d, el, mode, intensity, debug) ==
  IF el = 0 \/ "sb-masked" \in d[el].classes THEN d
  ELSE ApplyMask(d, el, mode, intensity, debug)

\* whether a maskElement call has the table slots it needs; a call that does
\* not fit is not taken, which cuts a run off at the size of the table
MaskFits(d, el, mode) ==
  \/ el = 0
  \/ "sb-masked" \in d[el].classes
  \/ mode # "collapse"
  \/ CanCreateOverlay(d)

(***************************************************************************)
(* textNodesUnder: the TreeWalker with its acceptNode filter               *)
(***************************************************************************)
AcceptNode(d, n) ==
  LET text == Trim(d[n].text)
  IN /\ d[n].kind = "text"
     /\ text # <<>> /\ Len(text) >= 2
     /\ d[n].parent # 0
     /\ ~d[d[n].parent].hidden

\* walker.nextNode(): the first accepted text node after c in document order
\* under root, 0 when there is none
NextNode(d, root, c) ==
  LET order == PreOrder(d, root)
      pos == CHOOSE i \in 1..Len(order) : order[i] = c
      rest == SelectSeq(SubSeq(order, pos + 1, Len(order)), LAMBDA n : AcceptNode(d, n))
  IN IF rest = <<>> THEN 0 ELSE Head(rest)

(***************************************************************************)
(* Settings snapshot                                                       *)
(***************************************************************************)
RuleOff == [enabled |-> FALSE]
RuleOn == [enabled |-> TRUE]
RuleBare == [k \in {} |-> TRUE]       \* a rule entry {} without an enabled field
NoRules == [h \in {} |-> RuleOn]

DEFAULTS ==
  [enabled |-> TRUE, snoozeUntil |-> 0, keywords |-> <<>>, mode |-> "blur",
   intensity |-> 8, partial |-> FALSE, highlightDebug |-> FALSE,
   siteRules |-> NoRules]

MutMergeEarlierWins(a, b) ==
  [k \in DOMAIN a \cup DOMAIN b |-> IF k \in DOMAIN a THEN a[k] ELSE b[k]]

\* { ...a, ...b } and Object.assign(a, b)
Merge(a, b) ==
  [k \in DOMAIN a \cup DOMAIN b |-> IF k \in DOMAIN b THEN b[k] ELSE a[k]]

\* hostname.replace(/^www\./, '')
StripWww(h) == IF Len(h) >= 1 /\ Head(h) = "www" THEN Tail(h) ELSE h

MutShouldScanSnoozeInclusive(s, h, time) ==
  LET snoozed == s.snoozeUntil >= time
      site == StripWww(h)
      siteEnabled == IF site \in DOMAIN s.siteRules /\ "enabled" \in DOMAIN s.siteRules[site]
                       THEN s.siteRules[site].enabled ELSE TRUE
  IN ~(~s.enabled \/ snoozed \/ ~siteEnabled)

MutShouldScanNoSnooze(s, h, time) ==
  LET site == StripWww(h)
      siteEnabled == IF site \in DOMAIN s.siteRules /\ "enabled" \in DOMAIN s.siteRules[site]
                       THEN s.siteRules[site].enabled ELSE TRUE
  IN ~(~s.enabled \/ ~siteEnabled)

MutShouldScanNoSiteRule(s, h, time) ==
  LET snoozed == s.snoozeUntil > time
  IN ~(~s.enabled \/ snoozed)

\* runScan's gate: FALSE when the callback returns before buildRegex
ShouldScan(s, h, time) ==
  LET snoozed == s.snoozeUntil > time
      site == StripWww(h)
      siteEnabled == IF site \in DOMAIN s.siteRules /\ "enabled" \in DOMAIN s.siteRules[site]
                       THEN s.siteRules[site].enabled ELSE TRUE
  IN ~(~s.enabled \/ snoozed \/ ~siteEnabled)

(***************************************************************************)
(* debounce                                                                *)
(***************************************************************************)
Wait == 300
MaxTimers == 3                 \* size of the timer table
TimerIds == 1..MaxTimers

NoTimers == [h \in {} |-> 0]

\* clearTimeout(h): a no-op for a handle that is not pending
ClearTimeout(tm, h) == [k \in DOMAIN tm \ {h} |-> tm[k]]

FreeHandle(tm) == MinOf(TimerIds \ DOMAIN tm)

MutDebouncedNoClear(tm, tt, time) ==
  LET h == FreeHandle(tm)
  IN [timers |-> [k \in DOMAIN tm \cup {h} |-> IF k = h THEN time + Wait ELSE tm[k]],
      t |-> h]

\* one call of the debounced function: clearTimeout(t); t = setTimeout(fn, wait)
Debounced(tm, tt, time) ==
  LET cleared == ClearTimeout(tm, tt)
      h == FreeHandle(cleared)
  IN [timers |-> [k \in DOMAIN cleared \cup {h} |->
                    IF k = h THEN time + Wait ELSE cleared[k]],
      t |-> h]

(***************************************************************************)
(* Inputs of the page model                                                *)
(***************************************************************************)
MaxTime == 900                 \* the clock stops here
MaxPushes == 1                 \* SB_SETTINGS_UPDATED messages delivered to the page
BurstCap == 2                  \* the trigger count of a burst saturates here
TickSteps == {150}

KwAb == <<"a", "b">>
KwTo == <<"t", "o">>
TextToAb == <<"t", "o", " ", "a", "b">>
TextAbc == <<"a", "b", "c">>
TextAB == <<" ", "A", "B", " ">>
PageTexts == {TextToAb, TextAbc}

ExCom == <<"ex", "com">>
Hosts == {<<"www", "ex", "com">>, <<"other", "org">>}
SnoozeStamp == 2 * Wait

\* body > [ p > [ text, text ], div (not displayed) > [ text ] ]
Page(text) ==
  [n \in NodeIds |->
     CASE n = 1 -> Element(0, <<2, 5>>, FALSE, NoStyle)
       [] n = 2 -> Element(1, <<3, 4>>, FALSE, NoStyle)
       [] n = 3 -> TextNode(2, text)
       [] n = 4 -> TextNode(2, TextAB)
       [] n = 5 -> Element(1, <<6>>, TRUE, NoStyle)
       [] n = 6 -> TextNode(5, TextAB)
       [] OTHER -> FreeNode]

Pages == {Page(TextToAb)}

\* what the store holds when the page loads, as patches over DEFAULTS
StorePatches ==
  { [k \in {} |-> 0],
    [keywords |-> <<KwAb>>],
    [keywords |-> <<KwTo>>, mode |-> "collapse"],
    [keywords |-> <<KwAb>>, mode |-> "collapse", snoozeUntil |-> SnoozeStamp],
    [keywords |-> <<<<" ">>, <<>>>>, partial |-> TRUE] }

\* the payloads of the SB_SETTINGS_UPDATED messages
Patches ==
  { [k \in {} |-> 0],
    [enabled |-> FALSE],
    [snoozeUntil |-> SnoozeStamp],
    [keywords |-> <<KwAb>>],
    [keywords |-> <<KwAb>>, mode |-> "collapse"],
    [mode |-> "blackout", highlightDebug |-> TRUE],
    [siteRules |-> [h \in {ExCom} |-> RuleOff]],
    [siteRules |-> [h \in {ExCom} |-> RuleBare]] }

\* a payload without fields
NoPayload == [k \in {} |-> 0]

Hist0 ==
  [sinceTrig |-> -1,    \* time since the latest trigger, saturating at Wait
   burstN |-> 0,        \* triggers of the current burst
   burstScans |-> 0,    \* scan executions since the current burst began
   closedScans |-> -1,  \* scan executions the previous burst got
   scanDelay |-> -1,    \* at the latest execution: time since the latest trigger
   ran |-> 0,           \* flips at every scan execution
   proceeded |-> FALSE, \* the latest execution passed the gate
   built |-> FALSE,     \* the latest execution called buildRegex
   visited |-> 0,       \* text nodes the latest walk yielded
   sizeAtStart |-> 0,   \* nodes in the page when the latest execution began
   payload |-> NoPayload]   \* payload of the latest message

NoMatchIn == [keywords |-> <<>>, partial |-> FALSE, text |-> <<>>]
NoMatchOut == [step |-> "idle", regex |-> NoRegex, result |-> FALSE]
EmptyDom == [n \in NodeIds |-> FreeNode]
NoCall ==
  [op |-> "none",        \* "mask" or "unmask": the latest call
   el |-> 0, mode |-> "", intensity |-> 0, debug |-> FALSE,   \* its arguments
   n |-> 0,              \* calls made so far
   wasMasked |-> FALSE,  \* el carried sb-masked when the call was made
   before |-> EmptyDom,  \* the page when the call was made
   pendingEl |-> 0,      \* the element of the latest mask that took effect,
                         \* until the next unmaskElement call
   pre |-> EmptyDom,     \* the page before that mask
   roundTrip |-> FALSE]  \* the call is an unmask of pendingEl
NoSurf ==
  [sync |-> DEFAULTS,    \* the content of chrome.storage.sync
   events |-> <<>>,      \* storage.onChanged events queued for the background
   chan |-> <<>>,        \* SB_SETTINGS_UPDATED payloads on their way to the tab
   list |-> <<>>,        \* popup: the list renderKeywords was last called with
   add |-> [step |-> "idle", term |-> <<>>, kws |-> <<>>],   \* popup add handler
   ctx |-> [step |-> "idle", id |-> "", term |-> <<>>, payload |-> NoPayload],
                         \* background context-menu handler
   started |-> 0,        \* handlers begun that call storage set
   last |-> [op |-> "none", arg |-> <<>>, n |-> 0]]
                         \* the latest storage set: its handler, the handler's
                         \* input, and the number of set calls so far

Init ==
  /\ state = DEFAULTS
  /\ store \in {Merge(DEFAULTS, p) : p \in StorePatches}
  /\ host \in Hosts
  /\ now = 0
  /\ timers = NoTimers
  /\ t = 0
  /\ pc = "idle"
  /\ loaded = FALSE
  /\ observing = FALSE
  /\ pushes = 0
  /\ dom \in Pages
  /\ cur = 0
  /\ regex = NoRegex
  /\ mutated = FALSE
  /\ hist = Hist0
  /\ mIn = NoMatchIn
  /\ mOut = NoMatchOut
  /\ call = NoCall
  /\ surf = NoSurf

harness == <<mIn, mOut, call, surf>>

(***************************************************************************)
(* The event loop                                                          *)
(***************************************************************************)
\* Timers are punctual: a timer task runs when it is due, before any event
\* that arrives at or after that time, and a scan takes no time.
NoTimerDue == \A h \in DOMAIN timers : timers[h] > now
CanSchedule == Cardinality(DOMAIN timers) < MaxTimers

\* bookkeeping of a trigger: it continues the burst when it comes less than
\* Wait after the previous trigger, and opens a new burst otherwise
TrigHist(hs) ==
  IF hs.sinceTrig = -1 \/ hs.sinceTrig >= Wait
    THEN [hs EXCEPT !.closedScans = IF hs.sinceTrig = -1 THEN -1 ELSE hs.burstScans,
                    !.burstN = 1, !.burstScans = 0, !.sinceTrig = 0]
    ELSE [hs EXCEPT !.burstN = Min(@ + 1, BurstCap), !.sinceTrig = 0]

\* runScan(): one call of the debounced scan
RunScan ==
  /\ timers' = Debounced(timers, t, now).timers
  /\ t' = Debounced(timers, t, now).t
  /\ hist' = TrigHist(hist)

ChildListChanged(d1, d2) == \E n \in NodeIds : d1[n].children # d2[n].children

\* init(): the storage callback sets state, then runScan() and observer.observe()
LoadDone ==
  /\ pc = "idle" /\ NoTimerDue /\ CanSchedule
  /\ ~loaded
  /\ loaded' = TRUE
  /\ state' = Merge(DEFAULTS, store)
  /\ RunScan
  /\ observing' = TRUE
  /\ UNCHANGED <<store, host, now, pc, pushes, dom, cur, regex, mutated, harness>>

\* chrome.runtime.onMessage listener, for a message of type SB_SETTINGS_UPDATED
Message(payload) ==
  /\ pc = "idle" /\ NoTimerDue /\ CanSchedule
  /\ pushes < MaxPushes
  /\ pushes' = pushes + 1
  /\ state' = Merge(state, payload)
  /\ timers' = Debounced(timers, t, now).timers
  /\ t' = Debounced(timers, t, now).t
  /\ hist' = [TrigHist(hist) EXCEPT !.payload = payload]
  /\ UNCHANGED <<store, host, now, pc, loaded, observing, dom, cur, regex, mutated, harness>>

\* the page rewrites one of its text nodes; the MutationObserver callback
\* calls runScan() when it is observing
PageMutation(n, text) ==
  /\ pc = "idle" /\ NoTimerDue /\ CanSchedule
  /\ dom[n].kind = "text" /\ "sb-overlay" \notin dom[dom[n].parent].classes
  /\ dom[n].text \in PageTexts /\ dom[n].text # text
  /\ dom' = [dom EXCEPT ![n].text = text]
  /\ IF observing THEN RunScan ELSE UNCHANGED <<timers, t, hist>>
  /\ UNCHANGED <<state, store, host, now, pc, loaded, observing, pushes, cur, regex,
                 mutated, harness>>

RECURSIVE Times(_, _, _)
\* n calls of unmaskElement(el)
Times(d, el, n) == IF n = 0 THEN d ELSE Times(unmaskElement(d, el), el, n - 1)

RECURSIVE Ancestors(_, _)
\* the event path of a click: the target, then its ancestors
Ancestors(d, n) == IF n = 0 THEN <<>> ELSE <<n>> \o Ancestors(d, d[n].parent)

RECURSIVE Dispatch(_, _)
\* the click listeners along the path: an overlay's listener reveals its
\* element; an element's once-only listeners reveal it and are removed
Dispatch(d, path) ==
  IF path = <<>> THEN d
  ELSE LET n == Head(path)
           d1 == IF d[n].owner # 0 THEN unmaskElement(d, d[n].owner) ELSE d
           d2 == IF d1[n].onceClick > 0
                   THEN [Times(d1, n, d1[n].onceClick) EXCEPT ![n].onceClick = 0]
                   ELSE d1
       IN Dispatch(d2, Tail(path))

\* the user clicks on an element of the page
Click(target) ==
  /\ pc = "idle" /\ NoTimerDue /\ CanSchedule
  /\ dom[target].kind = "el"
  /\ \E n \in SeqToSet(Ancestors(dom, target)) : dom[n].owner # 0 \/ dom[n].onceClick > 0
  /\ dom' = Dispatch(dom, Ancestors(dom, target))
  /\ IF observing /\ ChildListChanged(dom, dom') THEN RunScan
     ELSE UNCHANGED <<timers, t, hist>>
  /\ UNCHANGED <<state, store, host, now, pc, loaded, observing, pushes, cur, regex,
                 mutated, harness>>

\* time passes, up to the next timer's due time
Tick(d) ==
  /\ pc = "idle" /\ NoTimerDue
  /\ now < MaxTime
  /\ LET upto == Min(now + d, MaxTime)
         dues == {timers[h] : h \in DOMAIN timers}
         to == IF dues = {} THEN upto ELSE Min(upto, MinOf(dues))
     IN /\ now' = to
        /\ hist' = IF hist.sinceTrig = -1 THEN hist
                   ELSE [hist EXCEPT !.sinceTrig = Min(@ + (to - now), Wait)]
  /\ UNCHANGED <<state, store, host, timers, t, loaded, observing, pushes, pc, dom, cur,
                 regex, mutated, harness>>

\* a due timer runs runScan's callback: the gate, buildRegex, and the start
\* of scan(regex)
FireTimer(h) ==
  /\ pc = "idle"
  /\ h \in DOMAIN timers /\ timers[h] <= now
  /\ timers' = ClearTimeout(timers, h)
  /\ LET allowed == ShouldScan(state, host, now)
         re == IF allowed THEN buildRegex(state.keywords, state.partial) ELSE regex
         walks == allowed /\ ~re.null
     IN /\ regex' = re
        /\ pc' = IF walks THEN "scanning" ELSE "idle"
        /\ cur' = IF walks THEN Body ELSE cur
        /\ hist' = [hist EXCEPT !.burstScans = @ + 1,
                                !.scanDelay = hist.sinceTrig,
                                !.ran = 1 - @,
                                !.proceeded = allowed,
                                !.built = allowed,
                                !.visited = 0,
                                !.sizeAtStart = Cardinality(UsedIds(dom))]
  /\ UNCHANGED <<state, store, host, now, t, loaded, observing, pushes, dom, mutated,
                 harness>>

\* one iteration of scan's loop: the walker yields the next text node
ScanVisit ==
  /\ pc = "scanning"
  /\ LET tn == NextNode(dom, Body, cur)
         el == dom[tn].parent
     IN /\ tn # 0
        /\ cur' = tn
        /\ hist' = [hist EXCEPT !.visited = @ + 1]
        /\ IF RegexTest(regex, dom[tn].text)
             THEN /\ MaskFits(dom, el, state.mode)
                  /\ dom' = maskElement(dom, el, state.mode, state.intensity,
                                        state.highlightDebug)
             ELSE dom' = dom
        /\ mutated' = (mutated \/ (observing /\ ChildListChanged(dom, dom')))
  /\ UNCHANGED <<state, store, host, now, timers, t, pc, loaded, observing, pushes,
                 regex, harness>>

\* the walker is exhausted: scan returns, and the observer's callback runs
\* for the child-list changes the scan made
ScanEnd ==
  /\ pc = "scanning"
  /\ NextNode(dom, Body, cur) = 0
  /\ pc' = "idle"
  /\ cur' = 0
  /\ mutated' = FALSE
  /\ IF mutated THEN RunScan ELSE UNCHANGED <<timers, t, hist>>
  /\ UNCHANGED <<state, store, host, now, loaded, observing, pushes, dom, regex, harness>>

Next ==
  \/ LoadDone
  \/ \E payload \in Patches : Message(payload)
  \/ \E n \in NodeIds, text \in PageTexts : PageMutation(n, text)
  \/ \E target \in NodeIds : Click(target)
  \/ \E d \in TickSteps : Tick(d)
  \/ \E h \in TimerIds : FireTimer(h)
  \/ ScanVisit
  \/ ScanEnd

Spec == Init /\ [][Next]_vars

(***************************************************************************)
(* Properties of the page model                                            *)
(***************************************************************************)
ScanExecutes == hist'.ran # hist.ran

\* the Site Gate as the specification words it
SiteDisabled ==
  \E site \in DOMAIN state.siteRules :
     /\ site = StripWww(host)
     /\ "enabled" \in DOMAIN state.siteRules[site]
     /\ state.siteRules[site].enabled = FALSE
Snoozed == state.snoozeUntil > now
GateAllows == state.enabled /\ ~Snoozed /\ ~SiteDisabled

MaskedEls(d) == {n \in NodeIds : "sb-masked" \in d[n].classes}

C2_SiteGateDecision ==
  [][ScanExecutes => (hist'.proceeded = GateAllows)]_vars

\* a scan passed the gate at the very millisecond the snooze ended, on a host
\* whose rule has no enabled field
C2_Witness ==
  /\ pc = "scanning" /\ hist.visited = 0 /\ hist.proceeded
  /\ state.snoozeUntil = now /\ now > 0
  /\ StripWww(host) \in DOMAIN state.siteRules
  /\ state.siteRules[StripWww(host)] = RuleBare

\* every accepted text node the matcher matches has a masked parent
AllMatchesMasked(d, re) ==
  \A n \in NodeIds :
     (AcceptNode(d, n) /\ RegexTest(re, d[n].text)) => "sb-masked" \in d[d[n].parent].classes

\* C6: the gate is evaluated at each scan execution from the time and the
\* snapshot of that moment: an execution while snoozed masks nothing, and an
\* execution at or after snoozeUntil (enabled, site not disabled) builds the
\* matcher from the current keywords and its walk leaves every matching
\* element masked, whenever its trigger arrived.
C6_GateFreshPerScan ==
  [][/\ (ScanExecutes /\ Snoozed) => (dom' = dom /\ pc' = "idle")
     /\ (ScanExecutes /\ ~Snoozed /\ state.enabled /\ ~SiteDisabled) =>
           /\ regex' = buildRegex(state.keywords, state.partial)
           /\ pc' = (IF regex'.null THEN "idle" ELSE "scanning")
     /\ (pc = "scanning" /\ pc' = "idle") => AllMatchesMasked(dom', regex)]_vars

\* a scan whose trigger arrived while snoozed has run after the snooze ended
\* and has masked the matching element
C6_Witness ==
  /\ pc = "idle" /\ hist.proceeded /\ hist.visited > 0
  /\ hist.scanDelay = Wait /\ hist.burstScans = 1
  /\ now - Wait < state.snoozeUntil /\ state.snoozeUntil <= now
  /\ MaskedEls(dom) # {}

\* C7: a scan execution the gate denies builds no matcher, walks no node and
\* changes nothing in the page.
C7_DeniedScanChangesNothing ==
  [][(ScanExecutes /\ ~GateAllows) =>
        /\ dom' = dom
        /\ pc' = "idle"
        /\ regex' = regex
        /\ cur' = cur
        /\ ~hist'.built
        /\ hist'.visited = 0]_vars

\* an execution was denied by the host's rule while a keyword matches the page
C7_Witness ==
  /\ hist.burstScans = 1 /\ ~hist.proceeded /\ DOMAIN timers = {}
  /\ state.enabled /\ ~Snoozed /\ SiteDisabled
  /\ \E n \in NodeIds :
        /\ AcceptNode(dom, n)
        /\ RegexTest(buildRegex(state.keywords, state.partial), dom[n].text)
        /\ "sb-masked" \notin dom[dom[n].parent].classes

\* C8: the walk of a scan yields at most as many nodes as the page had when
\* the scan started.
C8_WalkBoundedByStartSize ==
  hist.visited <= hist.sizeAtStart

(***************************************************************************)
(* The masking engine on its own: maskElement and unmaskElement called on  *)
(* an element of a page, with every mode, intensity and debug flag         *)
(***************************************************************************)
MaxCalls == 3                  \* calls made on the page
Modes == {"blur", "blackout", "collapse", "zoom"}
Intensities == {0, 1, 8}

\* inline values the page itself has set on the element
PageStyled == [p \in StyleProps |-> IF p \in PlainProps THEN <<"page">> ELSE Unset]
PageStyles == {NoStyle, PageStyled}

\* body > [ el > [ text, c > [ text ] ] ]
MaskPage(style) ==
  [n \in NodeIds |->
     CASE n = 1 -> Element(0, <<2>>, FALSE, NoStyle)
       [] n = 2 -> Element(1, <<3, 4>>, FALSE, style)
       [] n = 3 -> TextNode(2, TextToAb)
       [] n = 4 -> Element(2, <<5>>, FALSE, NoStyle)
       [] n = 5 -> TextNode(4, TextAbc)
       [] OTHER -> FreeNode]

\* the same page after a scan has masked the inner element c in collapse mode
NestedMaskPage(style) == maskElement(MaskPage(style), 4, "collapse", 8, FALSE)

MaskTargets == {2}

MaskInit ==
  /\ dom \in {MaskPage(st) : st \in PageStyles} \cup {NestedMaskPage(st) : st \in PageStyles}
  /\ call = NoCall
  /\ state = DEFAULTS
  /\ store = DEFAULTS
  /\ host = ExCom
  /\ now = 0
  /\ timers = NoTimers
  /\ t = 0
  /\ pc = "idle"
  /\ loaded = FALSE
  /\ observing = FALSE
  /\ pushes = 0
  /\ cur = 0
  /\ regex = NoRegex
  /\ mutated = FALSE
  /\ hist = Hist0
  /\ mIn = NoMatchIn
  /\ mOut = NoMatchOut
  /\ surf = NoSurf

page == <<state, store, host, now, timers, t, pc, loaded, observing, pushes, cur, regex,
          mutated, hist>>

\* maskElement(el, mode, intensity, debug)
CallMask(el, mode, intensity, debug) ==
  /\ call.n < MaxCalls
  /\ dom[el].kind = "el"
  /\ MaskFits(dom, el, mode)
  /\ dom' = maskElement(dom, el, mode, intensity, debug)
  /\ LET effective == "sb-masked" \notin dom[el].classes
     IN call' = [op |-> "mask", el |-> el, mode |-> mode, intensity |-> intensity,
                 debug |-> debug, n |-> call.n + 1,
                 wasMasked |-> ~effective,
                 before |-> dom,
                 pendingEl |-> IF effective THEN el ELSE call.pendingEl,
                 pre |-> IF effective THEN dom ELSE call.pre,
                 roundTrip |-> FALSE]
  /\ UNCHANGED <<page, mIn, mOut, surf>>

\* unmaskElement(el)
CallUnmask(el) ==
  /\ call.n < MaxCalls
  /\ dom[el].kind = "el"
  /\ dom' = unmaskElement(dom, el)
  /\ call' = [op |-> "unmask", el |-> el, mode |-> "", intensity |-> 0,
              debug |-> FALSE, n |-> call.n + 1,
              wasMasked |-> "sb-masked" \in dom[el].classes,
              before |-> dom,
              pendingEl |-> 0,
              pre |-> call.pre,
              roundTrip |-> call.pendingEl = el]
  /\ UNCHANGED <<page, mIn, mOut, surf>>

MaskNext ==
  \/ \E el \in MaskTargets, mode \in Modes, intensity \in Intensities, debug \in BOOLEAN :
        CallMask(el, mode, intensity, debug)
  \/ \E el \in MaskTargets : CallUnmask(el)

SpecMask == MaskInit /\ [][MaskNext]_vars

OverlayKids(d, el) ==
  {d[el].children[i] : i \in 1..Len(d[el].children)} \cap
  {n \in NodeIds : "sb-overlay" \in d[n].classes}

\* C3: maskElement on an element that is already masked, with whatever
\* arguments, changes nothing: style, recorded mode, overlays and click
\* listeners of the element, and the rest of the page, stay as they were.
C3_MaskIdempotent ==
  (call.op = "mask" /\ call.wasMasked) => dom = call.before

\* a masked element got a second maskElement call with another mode and
\* another debug flag
C3_Witness ==
  /\ call.op = "mask" /\ call.wasMasked
  /\ call.mode # dom[call.el].maskMode
  /\ call.debug # (dom[call.el].style["outline"] # call.pre[call.el].style["outline"])

\* the style properties the latest effective maskElement call changed
Touched == {p \in StyleProps :
              call.before[call.el].style[p] # call.pre[call.el].style[p]}

\* C4: unmaskElement right after maskElement leaves every style property the
\* mask set unset, and no overlay child in the element.
C4_UnmaskClearsMask ==
  (call.op = "unmask" /\ call.roundTrip) =>
     /\ \A p \in Touched : dom[call.el].style[p] = Unset
     /\ OverlayKids(dom, call.el) = {}

\* C9: unmaskElement on an element that is not masked changes nothing: its
\* inline style, the values the page set included, and its children stay.
C9_UnmaskIdempotent ==
  (call.op = "unmask" /\ ~call.wasMasked) =>
     /\ dom[call.el].style = call.before[call.el].style
     /\ dom[call.el].children = call.before[call.el].children

\* C10: after maskElement followed by unmaskElement every style property the
\* engine touches has its pre-mask value again and the children are the
\* pre-mask children.
C10_RoundTripRestores ==
  (call.op = "unmask" /\ call.roundTrip) =>
     /\ \A p \in PlainProps : dom[call.el].style[p] = call.pre[call.el].style[p]
     /\ dom[call.el].children = call.pre[call.el].children

(***************************************************************************)
(* The matcher on its own: buildRegex and regex.test on keyword lists and  *)
(* texts over a small alphabet                                             *)
(***************************************************************************)
MaxKeywords == 2               \* keywords in a list
MaxTextLen == 3                \* characters in a text
MatchChars == {"a", "B", ".", " "}
KeywordPool == {<<>>, <<" ">>, <<"a">>, <<"a", "b">>, <<"b", ".">>, <<".", "b">>,
                <<" ", "A", " ">>}

RECURSIVE StringsUpTo(_)
StringsUpTo(n) ==
  IF n = 0 THEN {<<>>}
  ELSE LET shorter == StringsUpTo(n - 1)
       IN shorter \cup {Append(s, c) : s \in shorter, c \in MatchChars}

RECURSIVE ListsUpTo(_)
ListsUpTo(n) ==
  IF n = 0 THEN {<<>>}
  ELSE LET shorter == ListsUpTo(n - 1)
       IN shorter \cup {Append(l, k) : l \in shorter, k \in KeywordPool}

MatchInit ==
  /\ mIn \in [keywords : ListsUpTo(MaxKeywords), partial : BOOLEAN,
              text : StringsUpTo(MaxTextLen)]
  /\ mOut = NoMatchOut
  /\ dom = EmptyDom
  /\ call = NoCall
  /\ state = DEFAULTS
  /\ store = DEFAULTS
  /\ host = ExCom
  /\ now = 0
  /\ timers = NoTimers
  /\ t = 0
  /\ pc = "idle"
  /\ loaded = FALSE
  /\ observing = FALSE
  /\ pushes = 0
  /\ cur = 0
  /\ regex = NoRegex
  /\ mutated = FALSE
  /\ hist = Hist0
  /\ surf = NoSurf

\* const regex = buildRegex(keywords, partial)
MatchBuild ==
  /\ mOut.step = "idle"
  /\ mOut' = [step |-> "built", regex |-> buildRegex(mIn.keywords, mIn.partial),
              result |-> FALSE]
  /\ UNCHANGED <<page, dom, call, mIn, surf>>

\* regex.test(text), skipped by scan when regex is null
MatchTest ==
  /\ mOut.step = "built"
  /\ mOut' = [mOut EXCEPT !.step = "tested",
                          !.result = IF mOut.regex.null THEN FALSE
                                     ELSE RegexTest(mOut.regex, mIn.text)]
  /\ UNCHANGED <<page, dom, call, mIn, surf>>

MatchNext == MatchBuild \/ MatchTest

SpecMatch == MatchInit /\ [][MatchNext]_vars

\* the reference matcher: literal, case-insensitive occurrences of a keyword
UsableKeywords(kws) == {Trim(kws[i]) : i \in 1..Len(kws)} \ {<<>>}

OccursAt(k, text, i) ==
  /\ i + Len(k) - 1 <= Len(text)
  /\ \A j \in 1..Len(k) : Fold(text[i + j - 1]) = Fold(k[j])

Occurrences(k, text) == {i \in 1..Len(text) : OccursAt(k, text, i)}

\* the occurrence at i is not part of a longer word
WholeWordAt(k, text, i) ==
  /\ ~IsWordChar(CharAt(text, i - 1))
  /\ ~IsWordChar(CharAt(text, i + Len(k)))

\* C5: for a keyword list that is non-empty after trimming, the matcher
\* tests true when partial is false and a keyword occurs as a whole word,
\* false when the keywords occur only inside longer words, and with partial
\* true exactly when a keyword occurs anywhere; keywords are taken literally.
C5_MatcherAgreesWithReference ==
  LET kws == UsableKeywords(mIn.keywords)
      text == mIn.text
  IN (mOut.step = "tested" /\ kws # {}) =>
       /\ ~mIn.partial =>
            /\ (\E k \in kws : \E i \in Occurrences(k, text) : WholeWordAt(k, text, i))
                  => mOut.result
            /\ (\A k \in kws : \A i \in Occurrences(k, text) : ~WholeWordAt(k, text, i))
                  => ~mOut.result
       /\ mIn.partial =>
            (mOut.result = (\E k \in kws : Occurrences(k, text) # {}))

(***************************************************************************)
(* The control surfaces: chrome.storage.sync, the popup (popup.js), the    *)
(* options page (options.js) and the background worker (background.js),    *)
(* with the page's snapshot on the receiving end.  Here store is what the  *)
(* page's pending storage get read when the script started, and surf.sync  *)
(* is the storage itself.                                                  *)
(***************************************************************************)
MaxWrites == 2                 \* handlers run that write to the storage
Terms == {KwAb, KwTo}
Schemes == {"http://", "https://"}
\* values of the options page's host field: tokens, the host's labels among them
HostInputs == {<<"www", "ex", "com">>, <<" ", "https://", "ex", "com", "/">>, <<" ">>}
PopupSettings == {[enabled |-> FALSE], [mode |-> "collapse"]}
StoreSeeds == {[k \in {} |-> 0], [keywords |-> <<KwAb>>]}

RECURSIVE Dedupe(_)
\* [...new Set(list)]: the first occurrences, in order
Dedupe(list) ==
  IF list = <<>> THEN <<>>
  ELSE <<Head(list)>> \o Without(Dedupe(Tail(list)), Head(list))

\* const set = new Set(keywords); set.add(term); [...set]
SetAdd(keywords, term) == Dedupe(Append(keywords, term))

\* String(els.host.value || '').trim().replace(/^https?:\/\//,'').replace(/\/$/,'')
HostOf(input) ==
  LET trimmed == Trim(input)
      noScheme == IF trimmed # <<>> /\ Head(trimmed) \in Schemes
                    THEN Tail(trimmed) ELSE trimmed
  IN IF noScheme # <<>> /\ noScheme[Len(noScheme)] = "/"
       THEN SubSeq(noScheme, 1, Len(noScheme) - 1)
       ELSE noScheme

\* siteRules[h] = rule, on a copy
SetRule(rules, h, rule) ==
  [k \in DOMAIN rules \cup {h} |-> IF k = h THEN rule ELSE rules[k]]

\* delete siteRules[h], on a copy
DelRule(rules, h) == [k \in DOMAIN rules \ {h} |-> rules[k]]

\* siteRules[host]?.enabled ?? true
RuleEnabled(rules, h) ==
  IF h \in DOMAIN rules /\ "enabled" \in DOMAIN rules[h] THEN rules[h].enabled ELSE TRUE

\* chrome.storage.sync.set(obj), called by handler op with input arg: the
\* items are stored, and an onChanged event carries the new values of the
\* items whose value changed
StorageSet(sf, obj, op, arg) ==
  LET changed == {k \in DOMAIN obj : sf.sync[k] # obj[k]}
  IN [sf EXCEPT !.sync = Merge(@, obj),
                !.events = IF changed = {} THEN @
                           ELSE Append(@, [k \in changed |-> obj[k]]),
                !.last = [op |-> op, arg |-> arg, n |-> @.n + 1]]

StoreInit ==
  /\ store \in {Merge(DEFAULTS, p) : p \in StoreSeeds}
  /\ surf = [NoSurf EXCEPT !.sync = store]
  /\ state = DEFAULTS
  /\ host = <<"www">> \o ExCom
  /\ now = 0
  /\ timers = NoTimers
  /\ t = 0
  /\ pc = "idle"
  /\ loaded = FALSE
  /\ observing = FALSE
  /\ pushes = 0
  /\ dom = Page(TextToAb)
  /\ cur = 0
  /\ regex = NoRegex
  /\ mutated = FALSE
  /\ hist = Hist0
  /\ mIn = NoMatchIn
  /\ mOut = NoMatchOut
  /\ call = NoCall

\* what no handler of the control surfaces touches
pageSide == <<state, store, host, now, timers, t, pc, loaded, observing, pushes, dom, cur,
              regex, mutated, hist, mIn, mOut, call>>

CanWrite == surf.started < MaxWrites
Begin(sf) == [sf EXCEPT !.started = @ + 1]

\* popup init(): getAll(), then renderKeywords(s.keywords)
PopupOpen ==
  /\ surf.list # surf.sync.keywords
  /\ surf' = [surf EXCEPT !.list = surf.sync.keywords]
  /\ UNCHANGED pageSide

\* popup: the change handlers of the enabled and mode controls
PopupSet(obj) ==
  /\ CanWrite
  /\ surf' = StorageSet(Begin(surf), obj, "set", <<>>)
  /\ UNCHANGED pageSide

\* popup: click on the remove button of a rendered keyword
PopupRemove(term) ==
  /\ CanWrite
  /\ term \in SeqToSet(surf.list)
  /\ LET next == Without(surf.list, term)
     IN surf' = [StorageSet(Begin(surf), [keywords |-> next], "remove", term)
                   EXCEPT !.list = next]
  /\ UNCHANGED pageSide

\* popup: click on Add, up to the await of getAll()
PopupAddRead(term) ==
  /\ CanWrite
  /\ surf.add.step = "idle"
  /\ surf' = [Begin(surf) EXCEPT !.add = [step |-> "read", term |-> term,
                                          kws |-> surf.sync.keywords]]
  /\ UNCHANGED pageSide

\* popup: the rest of the Add handler, after getAll() has resolved
PopupAddWrite ==
  /\ surf.add.step = "read"
  /\ LET arr == SetAdd(surf.add.kws, surf.add.term)
     IN surf' = [StorageSet(surf, [keywords |-> arr], "add", surf.add.term)
                   EXCEPT !.list = arr, !.add = NoSurf.add]
  /\ UNCHANGED pageSide

\* popup: click on Clear
PopupClear ==
  /\ CanWrite
  /\ surf' = [StorageSet(Begin(surf), [keywords |-> <<>>], "clear", <<>>)
                EXCEPT !.list = <<>>]
  /\ UNCHANGED pageSide

\* options page: click on Enable / Disable / Remove with the host field's value
OptionsRule(op, input) ==
  /\ CanWrite
  /\ HostOf(input) # <<>>
  /\ LET h == HostOf(input)
         rules == surf.sync.siteRules
         siteRules == CASE op = "addHost" -> SetRule(rules, h, RuleOn)
                        [] op = "disableHost" -> SetRule(rules, h, RuleOff)
                        [] op = "removeHost" -> DelRule(rules, h)
     IN surf' = StorageSet(Begin(surf), [siteRules |-> siteRules], op, input)
  /\ UNCHANGED pageSide

\* background: a context-menu click on the tab, up to the await of the get
CtxClick(id, term) ==
  /\ CanWrite
  /\ surf.ctx.step = "idle"
  /\ surf' = [Begin(surf) EXCEPT
                !.ctx = [step |-> "read", id |-> id, term |-> term,
                         payload |-> IF id = "sb-add-selection"
                                       THEN [keywords |-> surf.sync.keywords]
                                       ELSE [siteRules |-> surf.sync.siteRules]]]
  /\ UNCHANGED pageSide

\* background: the handler computes the new value and awaits the set
CtxWrite ==
  /\ surf.ctx.step = "read"
  /\ LET data == surf.ctx.payload
         site == StripWww(host)
         obj == IF surf.ctx.id = "sb-add-selection"
                  THEN [keywords |-> SetAdd(data.keywords, surf.ctx.term)]
                  ELSE [siteRules |->
                          SetRule(data.siteRules, site,
                                  [enabled |-> ~RuleEnabled(data.siteRules, site)])]
     IN surf' = [StorageSet(surf, obj, surf.ctx.id, surf.ctx.term)
                   EXCEPT !.ctx = [@ EXCEPT !.step = "written", !.payload = obj]]
  /\ UNCHANGED pageSide

\* background: the handler's own pushSettingsToTabs, after the set
CtxPush ==
  /\ surf.ctx.step = "written"
  /\ surf' = [surf EXCEPT !.chan = Append(@, surf.ctx.payload), !.ctx = NoSurf.ctx]
  /\ UNCHANGED pageSide

\* background: the storage.onChanged listener pushes the changed items
Mirror ==
  /\ surf.events # <<>>
  /\ surf' = [surf EXCEPT !.events = Tail(@), !.chan = Append(@, Head(surf.events))]
  /\ UNCHANGED pageSide

\* the tab receives the oldest message in flight: the onMessage listener
Deliver ==
  /\ surf.chan # <<>>
  /\ pc = "idle" /\ NoTimerDue /\ CanSchedule
  /\ surf' = [surf EXCEPT !.chan = Tail(@)]
  /\ pushes' = pushes + 1
  /\ state' = Merge(state, Head(surf.chan))
  /\ timers' = Debounced(timers, t, now).timers
  /\ t' = Debounced(timers, t, now).t
  /\ hist' = [TrigHist(hist) EXCEPT !.payload = Head(surf.chan)]
  /\ UNCHANGED <<store, host, now, pc, loaded, observing, dom, cur, regex, mutated,
                 mIn, mOut, call>>

StoreNext ==
  \/ PopupOpen
  \/ \E obj \in PopupSettings : PopupSet(obj)
  \/ \E term \in Terms : PopupRemove(term)
  \/ \E term \in Terms : PopupAddRead(term)
  \/ PopupAddWrite
  \/ PopupClear
  \/ \E op \in {"addHost", "disableHost", "removeHost"}, input \in HostInputs :
        OptionsRule(op, input)
  \/ \E term \in Terms : CtxClick("sb-add-selection", term)
  \/ CtxClick("sb-toggle-site", <<>>)
  \/ CtxWrite
  \/ CtxPush
  \/ Mirror
  \/ Deliver
  \/ LoadDone

SpecStore == StoreInit /\ [][StoreNext]_vars

(***************************************************************************)
(* The blur radius, under SpecMask                                         *)
(***************************************************************************)
\* C11: a maskElement call that takes effect in blur mode, or in a mode that
\* is none of blur, blackout and collapse, sets the filter to a blur whose
\* radius is max(2, intensity), for intensity 0 and 1 as for any other.
C11_BlurRadiusIsMaxOfTwoAndIntensity ==
  (/\ call.op = "mask"
   /\ ~call.wasMasked
   /\ call.mode \notin {"blackout", "collapse"}) =>
     dom[call.el].style["filter"] = <<"blur", Max(2, call.intensity)>>

C13_NoScanBeforeLoad ==
  [][ScanExecutes => loaded]_vars

\* C14: the Mutation Watch starts observing once, and only after the initial
\* load and after a scan has executed, so that no mutation notification can
\* cancel or postpone the initial scan.
C14_WatchStartsAfterInitialScan ==
  /\ [](observing => (loaded /\ hist.scanDelay # -1))
  /\ [][observing => observing']_vars

(***************************************************************************)
(* Reveals, under Spec                                                     *)
(***************************************************************************)
\* C17: every masked element, whatever mode it was masked with, can be
\* unmasked by a user click: there is an element of the page (the masked
\* element, or an overlay) on which a click leaves the element unmasked.
C17_EveryMaskHasRevealClick ==
  \A el \in MaskedEls(dom) :
     \E target \in NodeIds :
        /\ dom[target].kind = "el"
        /\ "sb-masked" \notin Dispatch(dom, Ancestors(dom, target))[el].classes

\* elements that were masked and have been revealed: unmaskElement leaves
\* dataset.sbMasked in place
Revealed(d) ==
  {el \in NodeIds : d[el].kind = "el" /\ d[el].maskMode # "" /\ "sb-masked" \notin d[el].classes}

\* C18: a reveal is not remembered.  A scan that passes the gate leaves every
\* element whose text matches masked, the revealed ones included; and the
\* reveal of an element masked in collapse mode schedules such a scan itself,
\* to run once Wait has passed.
C18_RevealNotRemembered ==
  [][/\ (pc = "scanning" /\ pc' = "idle") =>
          \A n \in NodeIds :
             (/\ AcceptNode(dom', n)
              /\ RegexTest(regex, dom'[n].text)
              /\ dom'[n].parent \in Revealed(dom) \cup MaskedEls(dom)) =>
                 dom'[n].parent \in MaskedEls(dom')
     /\ (\E el \in MaskedEls(dom) \ MaskedEls(dom') : dom[el].maskMode = "collapse") =>
          /\ DOMAIN timers' # {}
          /\ \A h \in DOMAIN timers' : timers'[h] = now + Wait]_vars

(***************************************************************************)
(* Masks stay, under Spec                                                  *)
(***************************************************************************)
\* C19: a masked element stays masked, with the style and the recorded mode
\* it was masked with, until a user click: no scan step and no settings
\* update (load or patch, whatever it disables or changes) unmasks or
\* restyles it.  The only step that changes a masked element is the dispatch
\* of a click.
C19_OnlyClickChangesMasked ==
  [][\A el \in MaskedEls(dom) :
        (\/ el \notin MaskedEls(dom')
         \/ dom'[el].style # dom[el].style
         \/ dom'[el].maskMode # dom[el].maskMode) =>
           /\ pc = "idle" /\ pc' = "idle"
           /\ state' = state
           /\ ~ScanExecutes
           /\ \E target \in NodeIds : dom' = Dispatch(dom, Ancestors(dom, target))]_vars

\* an element masked in blur mode without outline is still so after a scan
\* that passed the gate and walked the page with mode blackout and the debug
\* outline switched on
C19_Witness ==
  /\ pc = "idle" /\ DOMAIN timers = {}
  /\ hist.burstScans = 1 /\ hist.proceeded /\ hist.visited > 0
  /\ state.mode = "blackout" /\ state.highlightDebug
  /\ \E el \in MaskedEls(dom) :
        /\ dom[el].maskMode = "blur"
        /\ dom[el].style["outline"] = Unset
        /\ dom[el].style["filter"] # Unset

(***************************************************************************)
(* Properties of the control surfaces, under SpecStore                     *)
(***************************************************************************)
\* C15: the popup's keyword edits are read-modify-write against the storage:
\* the remove button stores the list that is in the storage at the click
\* minus the term, and Add stores the then-stored list plus the term.
C15_PopupEditsAgainstStorage ==
  [][surf'.last.n # surf.last.n =>
       /\ surf'.last.op = "remove" =>
             surf'.sync.keywords = Without(surf.sync.keywords, surf'.last.arg)
       /\ surf'.last.op = "add" =>
             surf'.sync.keywords = SetAdd(surf.sync.keywords, surf'.last.arg)]_vars

\* C16: every key of the stored siteRules is a hostname without a leading
\* www label, whichever surface wrote it; so after the options page has
\* disabled a host entered as www.H, the gate denies on a page of www.H.
C16_SiteRuleKeysNormalised ==
  /\ \A h \in DOMAIN surf.sync.siteRules : StripWww(h) = h
  /\ (surf.last.op = "disableHost" /\ HostOf(surf.last.arg) = <<"www">> \o ExCom) =>
        ~ShouldScan(surf.sync, <<"www">> \o ExCom, now)

\* nothing is on its way: no handler is between its get and its push, no
\* onChanged event is queued, no message is in flight
Quiescent ==
  /\ surf.add.step = "idle"
  /\ surf.ctx.step = "idle"
  /\ surf.events = <<>>
  /\ surf.chan = <<>>

\* C20: once the load has completed and every write has been pushed and
\* every message delivered, the page's snapshot equals the storage on every
\* field, in whatever order the callback, the writes and the deliveries came.
C20_SnapshotConverges ==
  (loaded /\ Quiescent) => \A k \in DOMAIN DEFAULTS : state[k] = surf.sync[k]

====
